---- MODULE Spec2Model ----
(***************************************************************************)
(* A model of nds-extract (src/src/nds.rs): extract reads a cartridge      *)
(* image, decodes the fixed header, writes the two executable payloads,    *)
(* decodes the icon/banner record, reconstructs the static 32x32 icon and, *)
(* for the extended record, the animation frames.                          *)
(*                                                                         *)
(* Bytes are 0..255; a buffer is a sequence of bytes; buffer offsets are   *)
(* 0-based as in the source (buf[o + 1] is the byte at offset o).          *)
(* The file system is taken to accept every create and write; 32-bit       *)
(* header values are drawn below 2^31.                                     *)
(***************************************************************************)
EXTENDS Integers, Sequences, FiniteSets, TLC

VARIABLES
    nds_file,   \* the bytes the reader passed to extract still holds
    target,     \* byte order of the build target ("little" or "big")
    content,    \* extract: the Vec<u8> filled by read_to_end
    pc,         \* position of the run inside extract / dump_icon
    header,     \* the decoded NDSHeader, or None
    icon,       \* the decoded NDSIcon, or None
    seq_i,      \* dump_icon: index of the next entry of dsi.sequence
    frames,     \* dump_icon: the Vec<Frame> being collected
    out,        \* everything written so far (stdout lines and files), in order
    result,     \* what extract returned: None while running
    f_bitmap,   \* dump_icon_frame: argument bitmap
    f_palette,  \* dump_icon_frame: argument palette (colors)
    f_anim,     \* dump_icon_frame: argument anim
    f_pc,       \* dump_icon_frame: position inside the loops
    f_img,      \* dump_icon_frame: number of nibbles the iterator img has yielded
    f_tile,     \* dump_icon_frame: the current tile (Vec<u8> of 64 nibbles)
    f_loop,     \* dump_icon_frame: the four loop counters
    f_blits,    \* the calls made to the pixel sink so far, in order
    c_color,    \* colour conversion: the 16-bit palette entry
    c_rgba      \* colour conversion: the RGBA written for it, or None

vars == <<nds_file, target, content, pc, header, icon, seq_i, frames, out, result,
          f_bitmap, f_palette, f_anim, f_pc, f_img, f_tile, f_loop, f_blits,
          c_color, c_rgba>>

extractVars == <<nds_file, target, content, pc, header, icon, seq_i, frames, out, result>>
frameVars == <<f_bitmap, f_palette, f_anim, f_pc, f_img, f_tile, f_loop, f_blits>>
convVars == <<c_color, c_rgba>>

\* Option<T>: None is the empty sequence, Some(x) the sequence <<x>>
None == <<>>
Some(x) == <<x>>

Min(a, b) == IF a < b THEN a ELSE b

(***************************************************************************)
(* Primitive reads (deku).                                                 *)
(***************************************************************************)
Endians == {"little", "big"}

\* u16 at offset o, in byte order e
U16(buf, o, e) ==
    IF e = "little" THEN buf[o + 1] + 256 * buf[o + 2]
                    ELSE 256 * buf[o + 1] + buf[o + 2]

\* u32 at offset o, little endian
U32(buf, o) ==
    buf[o + 1] + 256 * buf[o + 2] + 65536 * buf[o + 3] + 16777216 * buf[o + 4]

\* [u8; n] at offset o, indexed from 0 as in the source
Bytes(buf, o, n) == [i \in 0..(n - 1) |-> buf[o + i + 1]]

\* [u16; n] at offset o, in byte order e, indexed from 0
U16Array(buf, o, n, e) == [i \in 0..(n - 1) |-> U16(buf, o + 2 * i, e)]

(***************************************************************************)
(* Record layouts: the fields in declaration order, each with its width    *)
(* in bytes.  deku reads them one after the other.                         *)
(***************************************************************************)
\* bug variant: the trailing debugger_reserved range is not part of the header
NDSHeaderLayoutNoDebugger ==
    << <<"title", 12>>, <<"gamecode", 4>>, <<"makercode", 2>>, <<"unitcode", 1>>,
       <<"encryption_seed", 1>>, <<"device_capacity", 1>>, <<"reserved_1", 7>>,
       <<"gamerevision", 2>>, <<"romversion", 1>>, <<"autostart", 1>>,
       <<"arm9_offset", 4>>, <<"arm9_entry", 4>>, <<"arm9_load", 4>>, <<"arm9_size", 4>>,
       <<"arm7_offset", 4>>, <<"arm7_entry", 4>>, <<"arm7_load", 4>>, <<"arm7_size", 4>>,
       <<"fnt_offset", 4>>, <<"fnt_size", 4>>, <<"fat_offset", 4>>, <<"fat_size", 4>>,
       <<"arm9_overlay_offset", 4>>, <<"arm9_overlay_size", 4>>,
       <<"arm7_overlay_offset", 4>>, <<"arm7_overlay_length", 4>>,
       <<"_1", 4>>, <<"_2", 4>>, <<"icon_banner_offset", 4>>,
       <<"secure_area_crc", 2>>, <<"secure_tfr_timeout", 2>>,
       <<"arm9_autoload", 4>>, <<"arm7_autoload", 4>>, <<"secure_disable", 8>>,
       <<"ntr_region_size", 4>>, <<"header_size", 4>>, <<"reserved_2", 56>>,
       <<"logo", 156>>, <<"logo_crc", 2>>, <<"header_crc", 2>> >>

NDSHeaderLayout ==
    << <<"title", 12>>, <<"gamecode", 4>>, <<"makercode", 2>>, <<"unitcode", 1>>,
       <<"encryption_seed", 1>>, <<"device_capacity", 1>>, <<"reserved_1", 7>>,
       <<"gamerevision", 2>>, <<"romversion", 1>>, <<"autostart", 1>>,
       <<"arm9_offset", 4>>, <<"arm9_entry", 4>>, <<"arm9_load", 4>>, <<"arm9_size", 4>>,
       <<"arm7_offset", 4>>, <<"arm7_entry", 4>>, <<"arm7_load", 4>>, <<"arm7_size", 4>>,
       <<"fnt_offset", 4>>, <<"fnt_size", 4>>, <<"fat_offset", 4>>, <<"fat_size", 4>>,
       <<"arm9_overlay_offset", 4>>, <<"arm9_overlay_size", 4>>,
       <<"arm7_overlay_offset", 4>>, <<"arm7_overlay_length", 4>>,
       <<"_1", 4>>, <<"_2", 4>>, <<"icon_banner_offset", 4>>,
       <<"secure_area_crc", 2>>, <<"secure_tfr_timeout", 2>>,
       <<"arm9_autoload", 4>>, <<"arm7_autoload", 4>>, <<"secure_disable", 8>>,
       <<"ntr_region_size", 4>>, <<"header_size", 4>>, <<"reserved_2", 56>>,
       <<"logo", 156>>, <<"logo_crc", 2>>, <<"header_crc", 2>>,
       <<"debugger_reserved", 32>> >>

\* the fields of NDSIcon before the conditional dsi_icon
NDSIconLayout ==
    << <<"version", 2>>, <<"crc_1", 2>>, <<"crc_2", 2>>, <<"crc_3", 2>>, <<"crc_4", 2>>,
       <<"reserved", 22>>, <<"bitmap", 512>>, <<"palette", 32>>,
       <<"title_jp", 256>>, <<"title_en", 256>>, <<"title_fr", 256>>, <<"title_de", 256>>,
       <<"title_it", 256>>, <<"title_es", 256>>, <<"title_zh", 256>>, <<"title_kr", 256>>,
       <<"zerofilled", 2048>> >>

DSIIconLayout ==
    << <<"frames", 4096>>, <<"frame_palettes", 256>>, <<"sequence", 128>> >>

RECURSIVE EndOf(_, _)
\* offset just past the k-th field of a layout (0 for k = 0)
EndOf(layout, k) == IF k = 0 THEN 0 ELSE EndOf(layout, k - 1) + layout[k][2]

SizeOf(layout) == EndOf(layout, Len(layout))

\* offset just past each field, in order
Ends(layout) == [k \in 1..Len(layout) |-> EndOf(layout, k)]

\* offset of each field, by name
Offsets(layout) ==
    [name \in {layout[k][1] : k \in 1..Len(layout)} |->
        LET k == CHOOSE j \in 1..Len(layout) : layout[j][1] = name
        IN  EndOf(layout, k - 1)]

NDSHeaderEnds == Ends(NDSHeaderLayout)
NDSIconEnds == Ends(NDSIconLayout)
DSIIconEnds == Ends(DSIIconLayout)
NDSHeaderOffsets == Offsets(NDSHeaderLayout)
NDSIconOffsets == Offsets(NDSIconLayout)
DSIIconOffsets == Offsets(DSIIconLayout)

HeaderSize == SizeOf(NDSHeaderLayout)
IconSize == SizeOf(NDSIconLayout)
DsiSize == SizeOf(DSIIconLayout)

\* Reading fields in order from offset start, the k-th ending ends[k] bytes on:
\* every read finds its bytes.  The first read that does not returns
\* DekuError::Incomplete.
ReadsFit(buf, start, ends) ==
    \A k \in DOMAIN ends : start + ends[k] <= Len(buf)

(***************************************************************************)
(* The decoders.  A decode result is [ok |-> TRUE, val |-> record] or      *)
(* [ok |-> FALSE, err |-> "Incomplete"].  Of the header, the fields that   *)
(* extract goes on to use are kept; the others are read and dropped.       *)
(***************************************************************************)
Incomplete == [ok |-> FALSE, err |-> "Incomplete"]

H(name) == NDSHeaderOffsets[name]

\* NDSHeader::from_bytes((buf, 0)); every integer is little endian
NDSHeader(buf) ==
    IF ~ReadsFit(buf, 0, NDSHeaderEnds) THEN Incomplete
    ELSE [ok |-> TRUE,
          val |-> [title              |-> Bytes(buf, H("title"), 12),
                   gamecode           |-> Bytes(buf, H("gamecode"), 4),
                   arm9_offset        |-> U32(buf, H("arm9_offset")),
                   arm9_size          |-> U32(buf, H("arm9_size")),
                   arm7_offset        |-> U32(buf, H("arm7_offset")),
                   arm7_size          |-> U32(buf, H("arm7_size")),
                   icon_banner_offset |-> U32(buf, H("icon_banner_offset"))]]

\* the threshold of #[deku(cond = "*version >= 259")]
DsiVersion == 259

\* bug variant: the extended block only above the threshold
HasDsiIconAbove(version) == version > DsiVersion

\* #[deku(cond = "*version >= 259")] on dsi_icon
HasDsiIcon(version) == version >= DsiVersion

I(name) == NDSIconOffsets[name]
D(name) == IconSize + DSIIconOffsets[name]

\* DSIIcon read at offset o of buf: 8 frames of 512 bytes, 8 palettes of 16
\* colours, 64 sequence entries
DSIIcon(buf, o, e) ==
    [frames         |-> [b \in 0..7 |-> [data |-> Bytes(buf, o + D("frames") + 512 * b, 512)]],
     frame_palettes |-> [p \in 0..7 |->
                            [colors |-> U16Array(buf, o + D("frame_palettes") + 32 * p, 16, e)]],
     sequence       |-> U16Array(buf, o + D("sequence"), 64, e)]

\* NDSIcon::from_bytes on the slice of buf that starts at offset o.  NDSIcon,
\* NDSIconPalette and DSIIcon carry no endian attribute: their integers are read
\* in the byte order e of the target.
NDSIcon(buf, o, e) ==
    IF ~ReadsFit(buf, o, NDSIconEnds) THEN Incomplete
    ELSE LET version == U16(buf, o + I("version"), e)
         IN  IF HasDsiIcon(version) /\ ~ReadsFit(buf, o + IconSize, DSIIconEnds)
             THEN Incomplete
             ELSE [ok |-> TRUE,
                   val |-> [version  |-> version,
                            bitmap   |-> Bytes(buf, o + I("bitmap"), 512),
                            palette  |-> [colors |-> U16Array(buf, o + I("palette"), 16, e)],
                            dsi_icon |-> IF HasDsiIcon(version)
                                         THEN Some(DSIIcon(buf, o, e))
                                         ELSE None]]

\* BoundedString::str: the bytes that are not 0 (the lossy UTF-8 decoding of
\* the rest is left as the bytes)
Str(data) ==
    LET n == Cardinality(DOMAIN data)
    IN  SelectSeq([i \in 1..n |-> data[i - 1]], LAMBDA b : b # 0)

(***************************************************************************)
(* Tile bitmap reconstruction.                                             *)
(***************************************************************************)
\* bug variant: the rescaled channel is cut off, not rounded
convTruncated(single_channel) == (255 * single_channel) \div 31

\* 5 bit colour channel to 8 bit: round((v / 31) * 255).  255 v / 31 is never
\* half way between two integers, so rounding is floor(x + 1/2).
conv(single_channel) == (2 * 255 * single_channel + 31) \div (2 * 31)

\* bug variant: index 0 is looked up like any other index
PixelColorOpaqueZero(me, palette) ==
    LET color == palette.colors[me]
    IN  <<conv(color % 32), conv((color \div 32) % 32), conv((color \div 1024) % 32), 255>>

\* the colour dump_icon_frame hands to blit for pixel index me
PixelColor(me, palette) ==
    IF me = 0 THEN <<0, 0, 0, 0>>
    ELSE LET color == palette.colors[me]
         IN  <<conv(color % 32), conv((color \div 32) % 32), conv((color \div 1024) % 32), 255>>

\* IconAnimation::default()
IconAnimationDefault ==
    [flip_vert |-> FALSE, flip_horiz |-> FALSE, palette |-> 0, bitmap |-> 0, duration |-> 0]

\* bug variant: the high half of a byte comes first
NibbleHighFirst(bitmap, n) ==
    IF n % 2 = 0 THEN bitmap[n \div 2] \div 16 ELSE bitmap[n \div 2] % 16

\* the n-th item of img: bytes mapped to [x & 0b1111, x >> 4] and flattened
Nibble(bitmap, n) ==
    IF n % 2 = 0 THEN bitmap[n \div 2] % 16 ELSE bitmap[n \div 2] \div 16

\* img.clone().take(8 * 8).collect() when img has yielded pos items
TakeTile(bitmap, pos) ==
    [k \in 0..(Min(64, 1024 - pos) - 1) |-> Nibble(bitmap, pos + k)]

\* bug variant: the tile is read column by column
BlitCallTransposed(tile, palette, anim, off, x, y) ==
    LET me == tile[(x * 8) + y]
        px == x + off[1]
        py == y + off[2]
    IN  << IF anim.flip_horiz THEN 31 - px ELSE px,
           IF anim.flip_vert THEN 31 - py ELSE py,
           IF me = 0 THEN <<0, 0, 0, 0>>
           ELSE LET color == palette.colors[me]
                IN  <<conv(color % 32), conv((color \div 32) % 32),
                      conv((color \div 1024) % 32), 255>> >>

\* the arguments of the blit call of inner iteration (x, y) of the tile at off
BlitCall(tile, palette, anim, off, x, y) ==
    LET me == tile[(y * 8) + x]
        px == x + off[1]
        py == y + off[2]
    IN  << IF anim.flip_horiz THEN 31 - px ELSE px,
           IF anim.flip_vert THEN 31 - py ELSE py,
           PixelColor(me, palette) >>

\* The calls dump_icon_frame makes, in order.  Call n (from 1) belongs to tile
\* t = (n - 1) div 64 of the loops `for y in 0..4 { for x in 0..4`, so t = 4 y + x,
\* and img has been advanced by 64 once per earlier tile; within the tile the
\* loops are `for x in 0..8 { for y in 0..8`.
dump_icon_frame(bitmap, palette, anim) ==
    [n \in 1..1024 |->
        LET t == (n - 1) \div 64
            k == (n - 1) % 64
        IN  BlitCall(TakeTile(bitmap, 64 * t), palette, anim,
                     <<(t % 4) * 8, (t \div 4) * 8>>, k \div 8, k % 8)]

\* RgbaImage::new(32, 32): img[x][y] is the pixel at (x, y), all zero
RgbaImageNew == [x \in 0..31 |-> [y \in 0..31 |-> <<0, 0, 0, 0>>]]

\* the sink of dump_icon: |x, y, color| buffer.get_pixel_mut(x, y).0 = color
PutPixel(img, call) == [img EXCEPT ![call[1]][call[2]] = call[3]]

RECURSIVE Draw(_, _, _, _)
\* img after the calls lo..hi of calls (lo <= hi), applied in order.  The test on
\* first has TLC compute the first half before it enters the second.
Draw(img, calls, lo, hi) ==
    IF lo = hi THEN PutPixel(img, calls[lo])
    ELSE LET mid == (lo + hi) \div 2
             first == Draw(img, calls, lo, mid)
         IN  IF DOMAIN first = {} THEN first ELSE Draw(first, calls, mid + 1, hi)

\* a fresh raster after dump_icon_frame has run with the sink of dump_icon
Render(bitmap, palette, anim) ==
    Draw(RgbaImageNew, dump_icon_frame(bitmap, palette, anim), 1, 1024)

\* bug variant: the two flip bits are taken for each other
IconAnimationFlipsSwapped(seq) ==
    [flip_vert  |-> ((seq \div 16384) % 2) > 0,
     flip_horiz |-> ((seq \div 32768) % 2) > 0,
     palette    |-> (seq \div 2048) % 8,
     bitmap     |-> (seq \div 256) % 8,
     duration   |-> seq % 256]

\* the descriptor fields of one sequence entry
IconAnimation(seq) ==
    [flip_vert  |-> ((seq \div 32768) % 2) > 0,
     flip_horiz |-> ((seq \div 16384) % 2) > 0,
     palette    |-> (seq \div 2048) % 8,
     bitmap     |-> (seq \div 256) % 8,
     duration   |-> seq % 256]

\* Duration::from_millis((((dur as f64) / 60.) * 1000.) as u64), in milliseconds
DelayMillis(dur) == (dur * 1000) \div 60

(***************************************************************************)
(* The input images.  An image is the bytes of a file: a header whose      *)
(* offset and size fields are given, an icon/banner record placed right    *)
(* after the header, filler everywhere else, cut to len bytes.             *)
(***************************************************************************)
MaxPattern == 1     \* bitmap patterns 0..MaxPattern (pattern 0 is all 0x00)
MaxPalette == 1     \* palettes 0..MaxPalette
MaxZeroAt == 2      \* sequence tables with the first 0 entry at 0..MaxZeroAt, or none
MaxVariant == 1     \* families 0..MaxVariant of sequence entries
MaxTrailing == 1    \* bytes after the end of the icon record: 0..MaxTrailing

FullLen == HeaderSize + IconSize + DsiSize

\* byte k (0 = least significant) of v
LEByte(v, k) == IF k = 0 THEN v % 256
                ELSE IF k = 1 THEN (v \div 256) % 256
                ELSE IF k = 2 THEN (v \div 65536) % 256
                ELSE (v \div 16777216) % 256

Filler(o) == (7 * o + 3) % 251

\* byte i of the bitmap with pattern k
PatternByte(k, i) == (k * (17 * i + 5)) % 256

\* colour j of palette q: a non-zero colour at index 0, colour 0x0000 at a non-zero index
PaletteColor(q, j) ==
    IF j = (q % 15) + 1 THEN 0 ELSE ((q + 1) * (2113 * j + 4660)) % 65536

\* entry i of the sequence table of family v whose first 0 is at z (z = 64: none);
\* the entries after the first 0 are not 0; family 0 has duration byte 0 throughout
SequenceEntry(v, z, i) ==
    IF i = z THEN 0
    ELSE LET e == (33024 * (i + 1) + 19260 * v + 256) % 65536
         IN  IF e = 0 THEN 1 ELSE e

GameCode == <<78, 0, 68, 83>>

\* byte at offset o of the header of input p
HeaderByte(p, o) ==
    LET at(name) == o - H(name)
        in(name, w) == at(name) >= 0 /\ at(name) < w
    IN  IF in("gamecode", 4) THEN GameCode[at("gamecode") + 1]
        ELSE IF in("arm9_offset", 4) THEN LEByte(p.arm9[1], at("arm9_offset"))
        ELSE IF in("arm9_size", 4) THEN LEByte(p.arm9[2], at("arm9_size"))
        ELSE IF in("arm7_offset", 4) THEN LEByte(p.arm7[1], at("arm7_offset"))
        ELSE IF in("arm7_size", 4) THEN LEByte(p.arm7[2], at("arm7_size"))
        ELSE IF in("icon_banner_offset", 4) THEN LEByte(p.icon_off, at("icon_banner_offset"))
        ELSE Filler(o)

\* byte at offset r of the icon/banner record of input p (files are little endian)
IconByte(p, r) ==
    IF r < 2 THEN LEByte(p.version, r)
    ELSE IF r >= I("bitmap") /\ r < I("bitmap") + 512 THEN PatternByte(p.pattern, r - I("bitmap"))
    ELSE IF r >= I("palette") /\ r < I("palette") + 32
         THEN LEByte(PaletteColor(p.palette, (r - I("palette")) \div 2), (r - I("palette")) % 2)
    ELSE IF r >= D("frames") /\ r < D("frames") + 4096
         THEN PatternByte(p.pattern + 1 + (r - D("frames")) \div 512, (r - D("frames")) % 512)
    ELSE IF r >= D("frame_palettes") /\ r < D("frame_palettes") + 256
         THEN LET k == r - D("frame_palettes")
              IN  LEByte(PaletteColor(p.palette + 1 + k \div 32, (k % 32) \div 2), k % 2)
    ELSE IF r >= D("sequence") /\ r < D("sequence") + 128
         THEN LET k == r - D("sequence")
              IN  LEByte(SequenceEntry(p.variant, p.zero_at, k \div 2), k % 2)
    ELSE Filler(r)

Image(p) ==
    [i \in 1..p.len |->
        IF i - 1 < HeaderSize THEN HeaderByte(p, i - 1)
        ELSE IF i - 1 < FullLen THEN IconByte(p, i - 1 - HeaderSize)
        ELSE Filler(i - 1)]

BaseInput ==
    [len |-> FullLen, arm9 |-> <<HeaderSize, 4>>, arm7 |-> <<HeaderSize + 4, 2>>,
     icon_off |-> HeaderSize, version |-> 1, pattern |-> 1, palette |-> 0,
     zero_at |-> 1, variant |-> 1, target |-> "little"]

\* buffers around the header size
HeaderInputs == {[BaseInput EXCEPT !.len = n] : n \in 0..(HeaderSize + 1)}

\* whole and cut icon records of either shape
IconInputs ==
    {[BaseInput EXCEPT !.len = n, !.version = v, !.target = e] :
        n \in {HeaderSize + 1, HeaderSize + IconSize - 1, HeaderSize + IconSize,
               FullLen - 1} \cup {FullLen + k : k \in 0..MaxTrailing},
        v \in {0, 1, DsiVersion - 1, DsiVersion, DsiVersion + 1, 769},
        e \in Endians}

\* icon_banner_offset inside, at the end of and outside the buffer
OffsetInputs ==
    {[BaseInput EXCEPT !.len = n, !.icon_off = o, !.version = v] :
        n \in {HeaderSize + IconSize, FullLen},
        o \in {0, 1, HeaderSize + DsiSize, FullLen - 1, FullLen, FullLen + 1, 2147483647},
        v \in {1, DsiVersion}}

\* executable regions inside, across the end of and outside the buffer
ArmRegions ==
    {<<0, 0>>, <<HeaderSize, 4>>, <<HeaderSize + IconSize - 4, 4>>,
     <<HeaderSize + IconSize - 2, 4>>, <<HeaderSize + IconSize, 1>>,
     <<HeaderSize + IconSize + 7, 3>>, <<HeaderSize + IconSize - 1, 2147483647>>}

ArmInputs ==
    {[BaseInput EXCEPT !.len = HeaderSize + IconSize, !.arm9 = a, !.arm7 = b] :
        a \in ArmRegions, b \in ArmRegions}

\* extended records: bitmaps, palettes and sequence tables
AnimInputs ==
    {[BaseInput EXCEPT !.version = DsiVersion, !.pattern = k, !.palette = k,
                       !.zero_at = z, !.variant = v, !.target = e] :
        k \in 0..MaxPattern, z \in (0..MaxZeroAt) \cup {64},
        v \in 0..MaxVariant, e \in Endians}

Inputs == HeaderInputs \cup IconInputs \cup OffsetInputs \cup ArmInputs \cup AnimInputs

(***************************************************************************)
(* extract.                                                                *)
(***************************************************************************)
Stdout(line) == [kind |-> "stdout", name |-> <<line>>, data |-> <<>>]
FileOut(name, data) == [kind |-> "file", name |-> name, data |-> data]

Ok == [tag |-> "Ok", error |-> ""]
Err(e) == [tag |-> "Err", error |-> e]
Panic(what) == [tag |-> "panic", error |-> what]

LoopStart == [ty |-> 0, tx |-> 0, x |-> 0, y |-> 0]

FrameIdle ==
    /\ f_bitmap = <<>> /\ f_palette = <<>> /\ f_anim = IconAnimationDefault
    /\ f_pc = "idle" /\ f_img = 0 /\ f_tile = <<>> /\ f_loop = LoopStart
    /\ f_blits = <<>>

ExtractIdle ==
    /\ nds_file = <<>> /\ target = "little" /\ content = <<>> /\ pc = "idle"
    /\ header = None /\ icon = None /\ seq_i = 0 /\ frames = <<>>
    /\ out = <<>> /\ result = None

ConvIdle == c_color = 0 /\ c_rgba = None

Init ==
    /\ \E p \in Inputs : nds_file = Image(p) /\ target = p.target
    /\ content = <<>>
    /\ pc = "read_to_end"
    /\ header = None /\ icon = None
    /\ seq_i = 0 /\ frames = <<>>
    /\ out = <<>>
    /\ result = None
    /\ FrameIdle /\ ConvIdle

\* nds_file.read_to_end(&mut content)
ReadToEnd ==
    /\ pc = "read_to_end"
    /\ content' = nds_file
    /\ nds_file' = <<>>
    /\ pc' = "header"
    /\ UNCHANGED <<target, header, icon, seq_i, frames, out, result>>
    /\ UNCHANGED <<frameVars, convVars>>

\* NDSHeader::from_bytes((content.as_slice(), 0))?.1 and the println of the header
DecodeHeader ==
    /\ pc = "header"
    /\ LET r == NDSHeader(content)
       IN  IF r.ok
           THEN /\ header' = Some(r.val)
                /\ out' = Append(out, Stdout("header"))
                /\ pc' = "dump_elf"
                /\ result' = result
           ELSE /\ result' = Some(Err(r.err))
                /\ pc' = "returned"
                /\ UNCHANGED <<header, out>>
    /\ UNCHANGED <<nds_file, target, content, icon, seq_i, frames>>
    /\ UNCHANGED <<frameVars, convVars>>

\* content.iter().skip(offset).take(size).cloned().collect()
SkipTake(buf, offset, size) ==
    LET from == Min(offset, Len(buf))
        n == Min(size, Len(buf) - from)
    IN  [i \in 1..n |-> buf[from + i]]

\* dump_elf(&header, content.as_slice())?
dump_elf ==
    /\ pc = "dump_elf"
    /\ LET h == header[1]
           arm9 == SkipTake(content, h.arm9_offset, h.arm9_size)
           arm7 == SkipTake(content, h.arm7_offset, h.arm7_size)
       IN  out' = out \o << FileOut(<<"out9.elf">>, arm9), Stdout("arm9 elf written"),
                            FileOut(<<"out7.elf">>, arm7), Stdout("arm7 elf written") >>
    /\ pc' = "dump_icon"
    /\ UNCHANGED <<nds_file, target, content, header, icon, seq_i, frames, result>>
    /\ UNCHANGED <<frameVars, convVars>>

\* dump_icon: NDSIcon::from_bytes((content.split_at(offset).1, 0))?.1 and the println
DecodeIcon ==
    /\ pc = "dump_icon"
    /\ LET mid == header[1].icon_banner_offset
       IN  IF mid > Len(content)
           THEN \* split_at: mid > len
                /\ result' = Some(Panic("split_at"))
                /\ pc' = "panicked"
                /\ UNCHANGED <<icon, out>>
           ELSE LET r == NDSIcon(content, mid, target)
                IN  IF r.ok
                    THEN /\ icon' = Some(r.val)
                         /\ out' = Append(out, Stdout("icon"))
                         /\ pc' = "icon_png"
                         /\ result' = result
                    ELSE /\ result' = Some(Err(r.err))
                         /\ pc' = "returned"
                         /\ UNCHANGED <<icon, out>>
    /\ UNCHANGED <<nds_file, target, content, header, seq_i, frames>>
    /\ UNCHANGED <<frameVars, convVars>>

\* dump_icon: the static icon, written as icon_<gamecode>.png; without an
\* extended block dump_icon and then extract return Ok
IconPng ==
    /\ pc = "icon_png"
    /\ LET icon_png == Render(icon[1].bitmap, icon[1].palette, IconAnimationDefault)
       IN  out' = Append(out, FileOut(<<"icon_", Str(header[1].gamecode), ".png">>, icon_png))
    /\ IF icon[1].dsi_icon # None
       THEN pc' = "gif_new" /\ result' = result
       ELSE pc' = "returned" /\ result' = Some(Ok)
    /\ UNCHANGED <<nds_file, target, content, header, icon, seq_i, frames>>
    /\ UNCHANGED <<frameVars, convVars>>

\* dump_icon: GifEncoder::new on the created file, set_repeat, frames = vec![]
GifNew ==
    /\ pc = "gif_new"
    /\ out' = Append(out, FileOut(<<"dsi_icon_", Str(header[1].gamecode), ".gif">>, <<>>))
    /\ frames' = <<>>
    /\ seq_i' = 0
    /\ pc' = "sequence"
    /\ UNCHANGED <<nds_file, target, content, header, icon, result>>
    /\ UNCHANGED <<frameVars, convVars>>

\* bug variant: an entry of duration 0 ends the sequence
IsTerminatorDuration(seq) == seq % 256 = 0

\* `if seq == 0 { break; }`
IsTerminator(seq) == seq = 0

\* the Frame pushed for sequence entry seq
FrameOf(dsi, seq) ==
    LET anim == IconAnimation(seq)
        bitmap == dsi.frames[anim.bitmap]
        palette == dsi.frame_palettes[anim.palette]
    IN  [buffer |-> Render(bitmap.data, palette, anim),
         delay  |-> DelayMillis(anim.duration)]

\* dump_icon: one iteration of `for seq in dsi.sequence`
SequenceStep ==
    /\ pc = "sequence"
    /\ LET dsi == icon[1].dsi_icon[1]
       IN  IF seq_i >= 64
           THEN pc' = "encode" /\ UNCHANGED <<seq_i, frames>>
           ELSE IF IsTerminator(dsi.sequence[seq_i])
           THEN pc' = "encode" /\ UNCHANGED <<seq_i, frames>>   \* break
           ELSE /\ frames' = Append(frames, FrameOf(dsi, dsi.sequence[seq_i]))
                /\ seq_i' = seq_i + 1
                /\ pc' = pc
    /\ UNCHANGED <<nds_file, target, content, header, icon, out, result>>
    /\ UNCHANGED <<frameVars, convVars>>

\* dump_icon: gif.encode_frames(frames)?; Ok(()) and extract returns Ok(header)
GifEncode ==
    /\ pc = "encode"
    /\ out' = Append(out, FileOut(<<"dsi_icon_", Str(header[1].gamecode), ".gif">>, frames))
    /\ frames' = <<>>
    /\ result' = Some(Ok)
    /\ pc' = "returned"
    /\ UNCHANGED <<nds_file, target, content, header, icon, seq_i>>
    /\ UNCHANGED <<frameVars, convVars>>

Next ==
    \/ ReadToEnd
    \/ DecodeHeader
    \/ dump_elf
    \/ DecodeIcon
    \/ IconPng
    \/ GifNew
    \/ SequenceStep
    \/ GifEncode

Spec == Init /\ [][Next]_vars

(***************************************************************************)
(* dump_icon_frame, call by call, with a sink that records its calls.      *)
(***************************************************************************)
InitFrame ==
    /\ ExtractIdle /\ ConvIdle
    /\ \E k \in 0..MaxPattern : f_bitmap = [i \in 0..511 |-> PatternByte(k, i)]
    /\ \E q \in 0..MaxPalette : f_palette = [colors |-> [j \in 0..15 |-> PaletteColor(q, j)]]
    /\ \E v \in BOOLEAN, h \in BOOLEAN :
          f_anim = [IconAnimationDefault EXCEPT !.flip_vert = v, !.flip_horiz = h]
    /\ f_pc = "tile"
    /\ f_img = 0
    /\ f_tile = <<>>
    /\ f_loop = LoopStart
    /\ f_blits = <<>>

\* head of `for y in 0..4 { for x in 0..4`: collect the tile, or return
FrameTile ==
    /\ f_pc = "tile"
    /\ IF f_loop.ty < 4
       THEN /\ f_tile' = TakeTile(f_bitmap, f_img)
            /\ f_loop' = [f_loop EXCEPT !.x = 0, !.y = 0]
            /\ f_pc' = "blit"
       ELSE /\ f_pc' = "returned"
            /\ UNCHANGED <<f_tile, f_loop>>
    /\ UNCHANGED <<f_bitmap, f_palette, f_anim, f_img, f_blits>>
    /\ UNCHANGED <<extractVars, convVars>>

\* one iteration of `for x in 0..8 { for y in 0..8`: one call of blit
FrameBlit ==
    /\ f_pc = "blit"
    /\ f_blits' = Append(f_blits,
                         BlitCall(f_tile, f_palette, f_anim,
                                  <<f_loop.tx * 8, f_loop.ty * 8>>, f_loop.x, f_loop.y))
    /\ IF f_loop.y < 7 THEN f_loop' = [f_loop EXCEPT !.y = @ + 1] /\ f_pc' = f_pc
       ELSE IF f_loop.x < 7 THEN f_loop' = [f_loop EXCEPT !.x = @ + 1, !.y = 0] /\ f_pc' = f_pc
       ELSE f_loop' = f_loop /\ f_pc' = "advance"
    /\ UNCHANGED <<f_bitmap, f_palette, f_anim, f_img, f_tile>>
    /\ UNCHANGED <<extractVars, convVars>>

\* img.advance_by(8 * 8).unwrap() and the step to the next tile
FrameAdvance ==
    /\ f_pc = "advance"
    /\ IF 1024 - f_img >= 64
       THEN /\ f_img' = f_img + 64
            /\ f_loop' = IF f_loop.tx < 3 THEN [f_loop EXCEPT !.tx = @ + 1]
                         ELSE [f_loop EXCEPT !.ty = @ + 1, !.tx = 0]
            /\ f_pc' = "tile"
       ELSE /\ f_pc' = "panicked"
            /\ UNCHANGED <<f_img, f_loop>>
    /\ UNCHANGED <<f_bitmap, f_palette, f_anim, f_tile, f_blits>>
    /\ UNCHANGED <<extractVars, convVars>>

NextFrame ==
    \/ FrameTile
    \/ FrameBlit
    \/ FrameAdvance

SpecFrame == InitFrame /\ [][NextFrame]_vars

\* the calls of a finished run are the calls of dump_icon_frame, in order
FrameStepsAgree ==
    f_pc = "returned" => f_blits = dump_icon_frame(f_bitmap, f_palette, f_anim)

(***************************************************************************)
(* The colour written for one palette entry selected by a non-zero index.  *)
(***************************************************************************)
InitConv ==
    /\ ExtractIdle /\ FrameIdle
    /\ c_color \in 0..65535
    /\ c_rgba = None

ConvertColor ==
    /\ c_rgba = None
    /\ \E me \in 1..15 :
          c_rgba' = Some(PixelColor(me, [colors |-> [j \in 0..15 |->
                                                        IF j = me THEN c_color ELSE 0]]))
    /\ UNCHANGED <<c_color, extractVars, frameVars>>

NextConv == ConvertColor

SpecConv == InitConv /\ [][NextConv]_vars

(***************************************************************************)
(* Properties of extract (checked under Spec).                             *)
(***************************************************************************)
\* index of the first entry of table seq that is 0, or 64 when there is none
FirstZero(seq) ==
    IF \E i \in 0..63 : seq[i] = 0
    THEN CHOOSE i \in 0..63 : seq[i] = 0 /\ \A j \in 0..(i - 1) : seq[j] # 0
    ELSE 64

\* the files written so far
Files == {i \in 1..Len(out) : out[i].kind = "file"}
ElfFiles == {i \in Files : out[i].name[1] \in {"out9.elf", "out7.elf"}}
GifFiles == {i \in Files : out[i].name[1] = "dsi_icon_"}

\* a region of size bytes at offset does not lie inside a buffer of n bytes
Exceeds(offset, size, n) == offset > n \/ size > n - offset

\* C1: the animation loop emits one frame per entry before the first entry whose
\* 16-bit value is 0 (64 frames when none is), in table order, and nothing for
\* the entries from that one on; an entry of duration 0 with other bits set is
\* no terminator.
C1_FramesUntilFirstZero ==
    (icon # None /\ icon[1].dsi_icon # None) =>
        LET dsi == icon[1].dsi_icon[1]
            z == FirstZero(dsi.sequence)
        IN  /\ pc = "sequence" => Len(frames) = seq_i /\ seq_i <= z
            /\ pc = "encode" => Len(frames) = z
            /\ (pc = "returned" /\ result = Some(Ok)) =>
                  LET gif == out[Len(out)].data
                  IN  /\ Len(gif) = z
                      /\ \A k \in 1..z : gif[k] = FrameOf(dsi, dsi.sequence[k - 1])

\* C1 happens: a table whose entries 0 and 1 have duration 0 but are not 0, whose
\* entry 2 is 0 and whose entry 3 is not, encoded as two frames
C1_Witness ==
    /\ pc = "returned" /\ result = Some(Ok)
    /\ icon # None /\ icon[1].dsi_icon # None
    /\ LET seq == icon[1].dsi_icon[1].sequence
       IN  /\ seq[0] # 0 /\ seq[0] % 256 = 0 /\ seq[1] # 0 /\ seq[1] % 256 = 0
           /\ seq[2] = 0 /\ seq[3] # 0
    /\ Len(out[Len(out)].data) = 2

\* C2: the decoded record has the extended block exactly when the version field
\* read first is >= 259; below it dsi_icon is None and the animation loop is not
\* entered; with enough bytes in the buffer the decode succeeds.
C2_DsiIconIffVersion ==
    /\ icon # None =>
          LET version == U16(content, header[1].icon_banner_offset, target)
          IN  /\ icon[1].version = version
              /\ icon[1].dsi_icon # None <=> version >= 259
              /\ version < 259 => icon[1].dsi_icon = None
    /\ (pc \in {"gif_new", "sequence", "encode"} \/ GifFiles # {}) =>
          icon # None /\ icon[1].version >= 259
    /\ (header # None /\ pc \notin {"dump_elf", "dump_icon"}) =>
          LET o == header[1].icon_banner_offset
              n == Len(content)
          IN  (o <= n /\ n - o >= 4672
                 /\ (U16(content, o, target) >= 259 => n - o >= 4672 + 4480)) => icon # None

\* C2 happens: version 258 decoded without the block and the run over
C2_Witness ==
    /\ pc = "returned" /\ result = Some(Ok)
    /\ icon # None /\ icon[1].version = 258 /\ icon[1].dsi_icon = None

C6_ShortBufferFails ==
    pc # "read_to_end" =>
        /\ Len(content) < 384 =>
              /\ header = None /\ icon = None /\ out = <<>>
              /\ pc \in {"header", "returned"}
              /\ pc = "returned" => result = Some(Err("Incomplete"))
        /\ (Len(content) >= 384 /\ pc # "header") => header # None

\* C6 happens: a buffer of 383 bytes was refused
C6_Witness ==
    /\ pc = "returned" /\ Len(content) = 383
    /\ result = Some(Err("Incomplete")) /\ out = <<>>

\* C7: when arm9_offset + arm9_size or arm7_offset + arm7_size exceeds the buffer
\* length, dump_elf rejects the input with an error before it writes anything,
\* and no payload is shorter than its declared size.
C7_ElfRangeRejected ==
    header # None =>
        LET h == header[1]
            n == Len(content)
        IN  /\ (Exceeds(h.arm9_offset, h.arm9_size, n) \/ Exceeds(h.arm7_offset, h.arm7_size, n)) =>
                  /\ ElfFiles = {}
                  /\ pc # "dump_elf" => pc = "returned" /\ result = Some(Err("InvalidOffset"))
            /\ \A i \in ElfFiles :
                  Len(out[i].data) = IF out[i].name[1] = "out9.elf" THEN h.arm9_size
                                     ELSE h.arm7_size

\* C8: when icon_banner_offset lies outside the buffer (beyond its end, or with
\* fewer bytes left than the icon record needs), extract returns a decode error,
\* never panics, and no component that depends on the header has written output.
C8_IconOffsetRejected ==
    header # None =>
        LET o == header[1].icon_banner_offset
            n == Len(content)
        IN  (o > n \/ n - o < 4672) =>
                /\ pc # "panicked"
                /\ Files = {}
                /\ pc \in {"dump_elf", "dump_icon", "returned"}
                /\ pc = "returned" => result # None /\ result[1].tag = "Err"

(***************************************************************************)
(* Properties of dump_icon_frame (checked under SpecFrame).                *)
(***************************************************************************)
\* nibble n of the stream of f_bitmap: nibble 2k is the low half of byte k,
\* nibble 2k + 1 its high half
StreamNibble(n) ==
    LET byte == f_bitmap[n \div 2]
    IN  IF n % 2 = 0 THEN byte % 16 ELSE byte \div 16

\* the colour of palette index idx: transparent for 0, else the palette entry
\* expanded, opaque
IndexColor(idx) == PixelColor(idx, f_palette)

Unflipped == ~f_anim.flip_vert /\ ~f_anim.flip_horiz

\* C3: without flips the 1024 calls hit every (x, y) of 0..31 x 0..31 exactly
\* once, with the colour of nibble 64 (4 (y div 8) + (x div 8)) + 8 (y mod 8) + (x mod 8).
C3_EachPixelOnce ==
    /\ Len(f_blits) <= 1024
    /\ (f_pc = "returned" /\ Unflipped) =>
          /\ Len(f_blits) = 1024
          /\ \A x \in 0..31, y \in 0..31 :
                LET hits == {n \in 1..1024 : f_blits[n][1] = x /\ f_blits[n][2] = y}
                    nib == 64 * (4 * (y \div 8) + (x \div 8)) + 8 * (y % 8) + (x % 8)
                IN  /\ Cardinality(hits) = 1
                    /\ \A n \in hits : f_blits[n][3] = IndexColor(StreamNibble(nib))

\* C3 happens: an unflipped run over a bitmap that is not blank has returned
C3_Witness ==
    /\ f_pc = "returned" /\ Unflipped /\ Len(f_blits) = 1024
    /\ \E i \in 0..511 : f_bitmap[i] # 0
    /\ \E n \in 1..1024 : f_blits[n][3] # <<0, 0, 0, 0>>

\* the colour of the call made by a step of the inner loops obeys the rule for
\* its pixel index me = tile[(y * 8) + x]
BlitColorRule ==
    (f_pc = "blit" /\ Len(f_blits') = Len(f_blits) + 1) =>
        LET me == f_tile[(f_loop.y * 8) + f_loop.x]
            color == f_blits'[Len(f_blits')][3]
        IN  /\ me = 0 => color = <<0, 0, 0, 0>>
            /\ me # 0 => color[4] = 255
            /\ (me # 0 /\ f_palette.colors[me] = 0) => color = <<0, 0, 0, 255>>

\* a bitmap of 512 bytes 0x00 yields 1024 writes of (0,0,0,0) and a raster that
\* is (0,0,0,0) everywhere
BlankBitmapTransparent ==
    (f_pc = "returned" /\ \A i \in 0..511 : f_bitmap[i] = 0) =>
        /\ Len(f_blits) = 1024
        /\ \A n \in 1..1024 : f_blits[n][3] = <<0, 0, 0, 0>>
        /\ \A x \in 0..31, y \in 0..31 :
              Draw(RgbaImageNew, f_blits, 1, 1024)[x][y] = <<0, 0, 0, 0>>

\* C5: index 0 is written as (0,0,0,0) whatever palette entry 0 holds, every other
\* index with alpha 255, a non-zero index of colour 0x0000 as (0,0,0,255), and
\* an all-0x00 bitmap yields a raster of (0,0,0,0) only.
C5_Transparency == [][BlitColorRule]_vars /\ []BlankBitmapTransparent

\* C5 happens: palette entry 0 is not 0, and the run wrote both a transparent
\* pixel and an opaque black one
C5_Witness ==
    /\ f_pc = "returned" /\ f_palette.colors[0] # 0
    /\ \E n \in 1..Len(f_blits) : f_blits[n][3] = <<0, 0, 0, 0>>
    /\ \E n \in 1..Len(f_blits) : f_blits[n][3] = <<0, 0, 0, 255>>

\* the calls whose content a state is checked for: all of them once the run has
\* returned, the latest one before
Checked == IF f_pc = "returned" THEN 1..Len(f_blits) ELSE {Len(f_blits)} \ {0}

\* C10 as claimed: the n-th call carries the colour of the n-th nibble of the stream
C10_StreamOrder ==
    \A n \in Checked : f_blits[n][3] = IndexColor(StreamNibble(n - 1))

\* C10 as amended: tiles in row-major order and, within a tile, column after
\* column: call 64 t + 8 x + y carries the colour of nibble 64 t + 8 y + x and
\* goes to (8 (t mod 4) + x, 8 (t div 4) + y), mirrored per axis by the flags,
\* which touch nothing but the destination.
C10_ColumnOrderInTile ==
    \A n \in Checked :
        LET t == (n - 1) \div 64
            x == ((n - 1) % 64) \div 8
            y == (n - 1) % 8
            px == 8 * (t % 4) + x
            py == 8 * (t \div 4) + y
        IN  f_blits[n] = << IF f_anim.flip_horiz THEN 31 - px ELSE px,
                            IF f_anim.flip_vert THEN 31 - py ELSE py,
                            IndexColor(StreamNibble(64 * t + 8 * y + x)) >>

\* C10 happens: a run with both flips has returned, and its second call carried
\* nibble 8 of the stream, whose colour is not that of nibble 1
C10_Witness ==
    /\ f_pc = "returned" /\ f_anim.flip_vert /\ f_anim.flip_horiz
    /\ f_blits[2] = <<31, 30, IndexColor(StreamNibble(8))>>
    /\ IndexColor(StreamNibble(8)) # IndexColor(StreamNibble(1))

(***************************************************************************)
(* Properties of the colour conversion (checked under SpecConv).           *)
(***************************************************************************)
\* n is v * 255 / 31 rounded to the nearest integer
Rounded(v, n) == 2 * (31 * n - 255 * v) <= 31 /\ 2 * (255 * v - 31 * n) <= 31

ConvShape ==
    /\ conv(0) = 0 /\ conv(31) = 255
    /\ \A v \in 0..30 : conv(v) <= conv(v + 1)
    /\ \A v \in 0..31 : Rounded(v, conv(v))

\* C9 as claimed: red is bits 10-14, green bits 5-9, blue bits 0-4; the colour
\* written is (conv(red), conv(green), conv(blue), 255)
C9_RedFromHighBits ==
    c_rgba # None =>
        LET red == (c_color \div 1024) % 32
            green == (c_color \div 32) % 32
            blue == c_color % 32
        IN  /\ Rounded(red, c_rgba[1][1])
            /\ Rounded(green, c_rgba[1][2])
            /\ Rounded(blue, c_rgba[1][3])
            /\ c_rgba[1][4] = 255

\* C9 as amended: red is bits 0-4, green bits 5-9, blue bits 10-14; the colour
\* written is (conv(red), conv(green), conv(blue), 255), conv(v) = round(v * 255 / 31),
\* conv(0) = 0, conv(31) = 255, conv non-decreasing
C9_RedFromLowBits ==
    /\ ConvShape
    /\ c_rgba # None =>
          LET red == c_color % 32
              green == (c_color \div 32) % 32
              blue == (c_color \div 1024) % 32
          IN  /\ Rounded(red, c_rgba[1][1])
              /\ Rounded(green, c_rgba[1][2])
              /\ Rounded(blue, c_rgba[1][3])
              /\ c_rgba[1][4] = 255

\* C9 happens: the entry 0x001F (bits 0-4 set, bits 10-14 clear) was written as
\* pure red
C9_Witness == c_color = 31 /\ c_rgba = Some(<<255, 0, 0, 255>>)

====
